---- MODULE Spec2Model ----
(***************************************************************************)
(* Readiness waiters and eventual-consistency poll loops of the Obstackd   *)
(* test harness (tests/integration, tests/e2e).                            *)
(*                                                                         *)
(* Time in the waiter part is counted in seconds, in the poll part in      *)
(* ticks of half a second (the shortest sleep of a poll loop is 0.5 s).    *)
(* A time.sleep(n) advances the clock by n; a request advances it by one   *)
(* of the durations drawn from ProbeDurations / QueryDurations.            *)
(***************************************************************************)
EXTENDS Integers, Sequences, FiniteSets, TLC

(***************************************************************************)
(* The readiness waiters                                                   *)
(***************************************************************************)

\* the ten session fixtures of tests/integration and wait_for_stack of tests/e2e
Waiters ==
    { "integration/conftest.wait_for_homeassistant",
      "integration/conftest.wait_for_prometheus",
      "integration/conftest.wait_for_otel_collector",
      "test_alloy_and_dashboards.wait_for_alloy",
      "test_dashboards.wait_for_grafana",
      "test_grafana_integration.wait_for_grafana",
      "test_loki_integration.wait_for_loki",
      "test_otel_collector.wait_for_otel_collector",
      "test_prometheus_scraping.wait_for_prometheus",
      "test_tempo_integration.wait_for_tempo",
      "e2e/conftest.wait_for_stack" }

wait_for_stack == "e2e/conftest.wait_for_stack"

\* max_retries = 30 in integration/conftest.py, 60 everywhere else
max_retries(w) ==
    IF w \in { "integration/conftest.wait_for_homeassistant",
               "integration/conftest.wait_for_prometheus",
               "integration/conftest.wait_for_otel_collector" }
    THEN 30 ELSE 60

\* faulty variant of retry_interval: the loop retries without waiting
retry_interval_NoWait(w) == 0

\* retry_interval = 2 in every waiter
retry_interval(w) == 2

\* timeout=5 of every readiness requests.get
ProbeTimeout == 5

\* the targets a waiter probes, in order, by the name its failure message uses
components(w) ==
    CASE w = "integration/conftest.wait_for_homeassistant"  -> << "Home Assistant" >>
      [] w = "integration/conftest.wait_for_prometheus"     -> << "Prometheus" >>
      [] w = "integration/conftest.wait_for_otel_collector" -> << "OTel Collector" >>
      [] w = "test_alloy_and_dashboards.wait_for_alloy"     -> << "Alloy" >>
      [] w = "test_dashboards.wait_for_grafana"             -> << "Grafana" >>
      [] w = "test_grafana_integration.wait_for_grafana"    -> << "Grafana" >>
      [] w = "test_loki_integration.wait_for_loki"          -> << "Loki" >>
      [] w = "test_otel_collector.wait_for_otel_collector"  -> << "OTel Collector" >>
      [] w = "test_prometheus_scraping.wait_for_prometheus" -> << "Prometheus" >>
      [] w = "test_tempo_integration.wait_for_tempo"        -> << "Tempo" >>
      [] w = wait_for_stack -> << "Prometheus", "Tempo", "Loki", "Grafana" >>

\* what one requests.get can produce: a RequestException, or a response
\* with a status code and a body of some length
NoResponse == [kind |-> "none", status_code |-> 0, text_len |-> 0]
RequestException == [kind |-> "RequestException", status_code |-> 0, text_len |-> 0]
StatusCodes == {200, 401, 503}
TextLens == {100, 101}
Responses ==
    {RequestException} \cup
    [kind : {"response"}, status_code : StatusCodes, text_len : TextLens]

\* faulty variant of ProbeDurations: the request is made without timeout=5
\* and may block twice as long
ProbeDurations_NoTimeout == {0, 2 * ProbeTimeout}

\* how long one probe blocks: it answers at once, or blocks to its timeout
ProbeDurations == {0, ProbeTimeout}

\* faulty variant of IsReady: any answer below 500 counts as ready
IsReady_AnyAnswer(w, r) == r.status_code < 500

\* the `if response.status_code ...` of each waiter
IsReady(w, r) ==
    CASE w = "integration/conftest.wait_for_homeassistant" ->
            r.status_code \in {200, 401}
      [] w = "integration/conftest.wait_for_otel_collector" ->
            r.status_code = 200 /\ r.text_len > 100
      [] OTHER -> r.status_code = 200

\* faulty variant of SettleDelay: every waiter sleeps 10 s after its success
SettleDelay_Always(w) == 10

\* the time.sleep(10) that follows a success before the waiter returns
SettleDelay(w) ==
    IF w \in { "test_grafana_integration.wait_for_grafana",
               "test_prometheus_scraping.wait_for_prometheus",
               wait_for_stack }
    THEN 10 ELSE 0

VARIABLES
    waiter,      \* the fixture that is running
    comp,        \* index of the current target in components(waiter)
    attempt,     \* the loop variable of `for attempt in range(max_retries)`
    wpc,         \* position in the waiter's code
    response,    \* outcome of the probe just made (NoResponse once consumed)
    probes,      \* probes issued to the current target
    sleeps,      \* time.sleep(retry_interval) calls made for the current target
    elapsed,     \* seconds since the first probe of the current target began
    sleptSince,  \* seconds slept since the last probe finished
    gapAtProbe,  \* sleptSince as it was when the last probe began
    firstOk,     \* index of the first probe that got the expected response, 0 if none
    settled,     \* seconds slept between the successful probe and the return
    failMsg      \* target named by pytest.fail, "" while none was raised

wvars == << waiter, comp, attempt, wpc, response, probes, sleeps, elapsed,
            sleptSince, gapAtProbe, firstOk, settled, failMsg >>

WInit ==
    /\ waiter \in Waiters
    /\ comp = 1
    /\ attempt = 0
    /\ wpc = "probe"
    /\ response = NoResponse
    /\ probes = 0
    /\ sleeps = 0
    /\ elapsed = 0
    /\ sleptSince = 0
    /\ gapAtProbe = 0
    /\ firstOk = 0
    /\ settled = 0
    /\ failMsg = ""

\* faulty variant of AfterProbe: the success branch lacks its return/break
AfterProbe_NoReturn(w, r) ==
    IF w = wait_for_stack THEN "check_last" ELSE "sleep"

\* faulty variant of AfterProbe: the except clause is missing, a
\* RequestException leaves the waiter
AfterProbe_Propagate(w, r) ==
    IF r.kind = "RequestException" THEN "raised"
    ELSE IF IsReady(w, r) THEN "succeeded"
    ELSE IF w = wait_for_stack THEN "check_last"
    ELSE "sleep"

\* where the code goes after the try block, given the probe's outcome
AfterProbe(w, r) ==
    IF r.kind = "response" /\ IsReady(w, r) THEN "succeeded"
    ELSE IF w = wait_for_stack THEN "check_last"
    ELSE "sleep"

\* try: response = requests.get(..., timeout=5); if <ready>: ...
\* except requests.exceptions.RequestException: pass
WProbe ==
    /\ wpc = "probe"
    /\ \E r \in Responses, d \in ProbeDurations :
        /\ response' = r
        /\ elapsed' = elapsed + d
        /\ firstOk' = IF firstOk = 0 /\ r.kind = "response" /\ IsReady(waiter, r)
                      THEN probes + 1 ELSE firstOk
        /\ wpc' = AfterProbe(waiter, r)
    /\ probes' = probes + 1
    /\ gapAtProbe' = sleptSince
    /\ sleptSince' = 0
    /\ UNCHANGED << waiter, comp, attempt, sleeps, settled, failMsg >>

\* integration waiters: print, the optional time.sleep(10), return
WReturn ==
    /\ wpc = "succeeded"
    /\ waiter # wait_for_stack
    /\ settled' = SettleDelay(waiter)
    /\ elapsed' = elapsed + SettleDelay(waiter)
    /\ wpc' = "returned"
    /\ response' = NoResponse
    /\ UNCHANGED << waiter, comp, attempt, probes, sleeps, sleptSince,
                    gapAtProbe, firstOk, failMsg >>

\* faulty variant of WBreak: the attempt counter is shared by the components
WBreak_SharedBudget ==
    /\ wpc = "succeeded"
    /\ waiter = wait_for_stack
    /\ response' = NoResponse
    /\ IF comp < Len(components(waiter))
       THEN /\ comp' = comp + 1
            /\ probes' = 0
            /\ sleeps' = 0
            /\ elapsed' = 0
            /\ sleptSince' = 0
            /\ gapAtProbe' = 0
            /\ firstOk' = 0
            /\ wpc' = "probe"
            /\ UNCHANGED attempt
       ELSE /\ wpc' = "provisioning"
            /\ UNCHANGED << comp, attempt, probes, sleeps, elapsed, sleptSince,
                            gapAtProbe, firstOk >>
    /\ UNCHANGED << waiter, settled, failMsg >>

\* wait_for_stack: print, break; the outer loop takes the next component
WBreak ==
    /\ wpc = "succeeded"
    /\ waiter = wait_for_stack
    /\ response' = NoResponse
    /\ IF comp < Len(components(waiter))
       THEN /\ comp' = comp + 1
            /\ attempt' = 0
            /\ probes' = 0
            /\ sleeps' = 0
            /\ elapsed' = 0
            /\ sleptSince' = 0
            /\ gapAtProbe' = 0
            /\ firstOk' = 0
            /\ wpc' = "probe"
       ELSE /\ wpc' = "provisioning"
            /\ UNCHANGED << comp, attempt, probes, sleeps, elapsed, sleptSince,
                            gapAtProbe, firstOk >>
    /\ UNCHANGED << waiter, settled, failMsg >>

\* faulty variant of WCheckLast: the test for the last attempt is missing
WCheckLast_NoCheck ==
    /\ wpc = "check_last"
    /\ wpc' = "sleep"
    /\ response' = NoResponse
    /\ UNCHANGED << waiter, comp, attempt, probes, sleeps, elapsed, sleptSince,
                    gapAtProbe, firstOk, settled, failMsg >>

\* wait_for_stack: if attempt == max_retries - 1: pytest.fail(...)
WCheckLast ==
    /\ wpc = "check_last"
    /\ wpc' = IF attempt = max_retries(waiter) - 1 THEN "exhausted" ELSE "sleep"
    /\ response' = NoResponse
    /\ UNCHANGED << waiter, comp, attempt, probes, sleeps, elapsed, sleptSince,
                    gapAtProbe, firstOk, settled, failMsg >>

\* time.sleep(retry_interval), then the for statement takes the next attempt
\* or, its range used up, falls through to pytest.fail
WSleep ==
    /\ wpc = "sleep"
    /\ sleeps' = sleeps + 1
    /\ elapsed' = elapsed + retry_interval(waiter)
    /\ sleptSince' = sleptSince + retry_interval(waiter)
    /\ attempt' = attempt + 1
    /\ wpc' = IF attempt + 1 < max_retries(waiter) THEN "probe" ELSE "exhausted"
    /\ response' = NoResponse
    /\ UNCHANGED << waiter, comp, probes, gapAtProbe, firstOk, settled, failMsg >>

\* faulty variant of WFail: exhaustion is only reported, the fixture goes on
\* as if the target were ready
WFail_Soft ==
    /\ wpc = "exhausted"
    /\ failMsg' = components(waiter)[comp]
    /\ wpc' = IF waiter = wait_for_stack THEN "succeeded" ELSE "returned"
    /\ UNCHANGED << waiter, comp, attempt, response, probes, sleeps, elapsed,
                    sleptSince, gapAtProbe, firstOk, settled >>

\* pytest.fail("<name> did not become ready in time")
WFail ==
    /\ wpc = "exhausted"
    /\ failMsg' = components(waiter)[comp]
    /\ wpc' = "failed"
    /\ UNCHANGED << waiter, comp, attempt, response, probes, sleeps, elapsed,
                    sleptSince, gapAtProbe, firstOk, settled >>

\* wait_for_stack: time.sleep(10) for datasource provisioning, then done
WProvision ==
    /\ wpc = "provisioning"
    /\ settled' = SettleDelay(waiter)
    /\ elapsed' = elapsed + SettleDelay(waiter)
    /\ wpc' = "returned"
    /\ UNCHANGED << waiter, comp, attempt, response, probes, sleeps, sleptSince,
                    gapAtProbe, firstOk, failMsg >>

(***************************************************************************)
(* The poll loops of tests/e2e/test_telemetry_flow.py                      *)
(***************************************************************************)

\* the five tests that poll a backend until a deadline
PollTests ==
    { "test_metric_reaches_prometheus",
      "test_metric_queryable_in_grafana",
      "test_trace_reaches_tempo_via_grpc",
      "test_trace_viewable_in_grafana",
      "test_metric_e2e_latency_under_5s" }

\* max_wait of each loop, in ticks of 0.5 s (15, 30, 10, 20 and 30 seconds)
max_wait(t) ==
    CASE t = "test_metric_reaches_prometheus"     -> 30
      [] t = "test_metric_queryable_in_grafana"   -> 60
      [] t = "test_trace_reaches_tempo_via_grpc"  -> 20
      [] t = "test_trace_viewable_in_grafana"     -> 40
      [] t = "test_metric_e2e_latency_under_5s"   -> 60

\* the time.sleep at the end of each iteration, in ticks (2 s; 0.5 s in the latency test)
poll_sleep(t) ==
    IF t = "test_metric_e2e_latency_under_5s" THEN 1 ELSE 4

\* timeout=10 of the query helpers, in ticks
QueryTimeout == 20

\* how long one query blocks: not at all, half a second, or to its timeout
QueryDurations == {0, 1, QueryTimeout}

\* ticks between the clock reading the loop measures from and the first
\* evaluation of the while condition: the latency test reads send_time
\* before send_test_metric, the others read start_time right before the loop
StartDelays(t) ==
    IF t = "test_metric_e2e_latency_under_5s" THEN {0, 1} ELSE {0}

\* number of distinct exceptions a query helper can raise
MaxErr == 2

NoError == 0
Errors == 1 .. MaxErr
AssertionError == MaxErr + 1

\* what one call of a query fixture can produce: an exception (HTTP error
\* status from raise_for_status, transport error, undecodable body), or a
\* decoded result that is empty or not, and whose content passes the
\* test's content checks or not
NoResult == [kind |-> "none", err |-> NoError, nonempty |-> FALSE, valid |-> FALSE]
QueryResults ==
    [kind : {"raise"}, err : Errors, nonempty : {FALSE}, valid : {FALSE}] \cup
    [kind : {"result"}, err : {NoError}, nonempty : BOOLEAN, valid : BOOLEAN]

\* faulty variant of Satisfied: the content asserts are missing
Satisfied_NoContentCheck(t, r) ==
    r.kind = "result" /\ r.nonempty

\* the condition under which the loop body reaches `found = True; break`
Satisfied(t, r) ==
    /\ r.kind = "result"
    /\ r.nonempty
    /\ t \in { "test_metric_reaches_prometheus",
               "test_trace_reaches_tempo_via_grpc" } => r.valid

\* the exception the try block ends with, NoError if it ends normally:
\* the query's own exception, or the AssertionError of the value and label
\* asserts that test_metric_reaches_prometheus makes inside the try block
Raised(t, r) ==
    IF r.kind = "raise" THEN r.err
    ELSE IF t = "test_metric_reaches_prometheus" /\ r.nonempty /\ ~r.valid
         THEN AssertionError
    ELSE NoError

\* faulty variant of AfterQuery: the success branch lacks its break
AfterQuery_NoBreak(t, r) == "sleep"

\* where the code goes after the try statement
AfterQuery(t, r) ==
    IF Satisfied(t, r) THEN "found" ELSE "sleep"

\* what the except clause prints: `print(f"Retry: {e}")`, nothing in the
\* latency test (`except Exception: pass`)
RetryPrint(t, e, old) ==
    IF e = NoError \/ t = "test_metric_e2e_latency_under_5s" THEN old ELSE e

\* faulty variant of AssertMessage: the message quotes the last exception
AssertMessage_QuoteError(t, e) ==
    [ text |-> "not found", error |-> e ]

\* the message of the final `assert ..._found, f"..."`: a fixed text around
\* the identifier (or max_wait) of the test; error is the exception it quotes
AssertMessage(t, e) ==
    [ text  |-> CASE t = "test_metric_reaches_prometheus"    -> "not found in Prometheus after 30 seconds"
                  [] t = "test_metric_queryable_in_grafana"  -> "not queryable in Grafana after 30 seconds"
                  [] t = "test_trace_reaches_tempo_via_grpc" -> "not found in Tempo after 20 seconds"
                  [] t = "test_trace_viewable_in_grafana"    -> "not viewable in Grafana after 20 seconds"
                  [] t = "test_metric_e2e_latency_under_5s"  -> "not found within 30 seconds",
      error |-> NoError ]

NoMessage == [text |-> "", error |-> NoError]

\* the time.sleep between sending and start_time = time.time(), in ticks
\* (15, 15, 10 and 10 seconds; the latency test polls at once)
propagation_sleep(t) ==
    CASE t = "test_metric_reaches_prometheus"     -> 30
      [] t = "test_metric_queryable_in_grafana"   -> 30
      [] t = "test_trace_reaches_tempo_via_grpc"  -> 20
      [] t = "test_trace_viewable_in_grafana"     -> 20
      [] t = "test_metric_e2e_latency_under_5s"   -> 0

\* actual_latency = None
NoLatency == -1

\* the line the latency test prints after its assert: the check mark if
\* actual_latency <= 5.0 (10 ticks), the warning otherwise
SlaPrint(t, lat) ==
    IF t # "test_metric_e2e_latency_under_5s" THEN "none"
    ELSE IF lat <= 10 THEN "within" ELSE "exceeded"

VARIABLES
    test,           \* the e2e test that is running
    ppc,            \* position in the test's poll loop
    now,            \* ticks since start_time (send_time in the latency test)
    found,          \* metric_found / trace_found
    result,         \* outcome of the query just made (NoResult once consumed)
    queries,        \* queries issued so far
    queryStart,     \* value of `now` when the last query was started
    satisfiedAt,    \* index of the first query whose result satisfied the predicate, 0 if none
    lastError,      \* the last exception the except clause caught, NoError if none
    retryLog,       \* the last exception printed by the except clause
    report,         \* message of the failed final assert, NoMessage if none
    actual_latency, \* ticks from send_time to the satisfying answer, NoLatency if None
    slaPrint,       \* which of the two SLA lines the latency test has printed
    sawEmpty        \* some query so far got a successful but empty answer

pvars == << test, ppc, now, found, result, queries, queryStart, satisfiedAt,
            lastError, retryLog, report, actual_latency, slaPrint, sawEmpty >>

\* no e2e test is running
PIdle ==
    /\ test = "none"
    /\ ppc = "idle"
    /\ now = 0
    /\ found = FALSE
    /\ result = NoResult
    /\ queries = 0
    /\ queryStart = 0
    /\ satisfiedAt = 0
    /\ lastError = NoError
    /\ retryLog = NoError
    /\ report = NoMessage
    /\ actual_latency = NoLatency
    /\ slaPrint = "none"
    /\ sawEmpty = FALSE

\* an e2e test has got its wait_for_stack fixture and is about to send
PInit ==
    /\ test \in PollTests
    /\ ppc = "start"
    /\ now = 0
    /\ found = FALSE
    /\ result = NoResult
    /\ queries = 0
    /\ queryStart = 0
    /\ satisfiedAt = 0
    /\ lastError = NoError
    /\ retryLog = NoError
    /\ report = NoMessage
    /\ actual_latency = NoLatency
    /\ slaPrint = "none"
    /\ sawEmpty = FALSE

\* wait_for_stack has returned, every component having answered its first probe
StackReady ==
    /\ waiter = wait_for_stack
    /\ comp = Len(components(wait_for_stack))
    /\ attempt = 0
    /\ wpc = "returned"
    /\ response = NoResponse
    /\ probes = 1
    /\ sleeps = 0
    /\ elapsed = SettleDelay(wait_for_stack)
    /\ sleptSince = 0
    /\ gapAtProbe = 0
    /\ firstOk = 1
    /\ settled = SettleDelay(wait_for_stack)
    /\ failMsg = ""

\* send the telemetry, the fixed propagation sleep, start_time = time.time()
PStart ==
    /\ ppc = "start"
    /\ \E d \in StartDelays(test) : now' = d
    /\ ppc' = "while"
    /\ UNCHANGED << test, found, result, queries, queryStart, satisfiedAt,
                    lastError, retryLog, report, actual_latency, slaPrint,
                    sawEmpty >>

\* faulty variant of PWhile: the deadline test is <= instead of <
PWhile_Inclusive ==
    /\ ppc = "while"
    /\ IF now <= max_wait(test)
       THEN ppc' = "query" /\ queryStart' = now
       ELSE ppc' = "assert" /\ UNCHANGED queryStart
    /\ UNCHANGED << test, now, found, result, queries, satisfiedAt,
                    lastError, retryLog, report, actual_latency, slaPrint,
                    sawEmpty >>

\* while time.time() - start_time < max_wait:
PWhile ==
    /\ ppc = "while"
    /\ IF now < max_wait(test)
       THEN ppc' = "query" /\ queryStart' = now
       ELSE ppc' = "assert" /\ UNCHANGED queryStart
    /\ UNCHANGED << test, now, found, result, queries, satisfiedAt,
                    lastError, retryLog, report, actual_latency, slaPrint,
                    sawEmpty >>

\* try: result = <query>(...); if <predicate>: ... except Exception as e: print
PQuery ==
    /\ ppc = "query"
    /\ \E r \in QueryResults, d \in QueryDurations :
        /\ result' = r
        /\ now' = now + d
        /\ satisfiedAt' = IF satisfiedAt = 0 /\ Satisfied(test, r)
                          THEN queries + 1 ELSE satisfiedAt
        /\ lastError' = IF Raised(test, r) # NoError THEN Raised(test, r) ELSE lastError
        /\ retryLog' = RetryPrint(test, Raised(test, r), retryLog)
        /\ ppc' = AfterQuery(test, r)
        /\ sawEmpty' = (sawEmpty \/ (r.kind = "result" /\ ~r.nonempty))
    /\ queries' = queries + 1
    /\ UNCHANGED << test, found, queryStart, report, actual_latency, slaPrint >>

\* ..._found = True; break
PBreak ==
    /\ ppc = "found"
    /\ found' = TRUE
    /\ ppc' = "assert"
    /\ actual_latency' = IF test = "test_metric_e2e_latency_under_5s"
                          THEN now ELSE actual_latency
    /\ UNCHANGED << test, now, result, queries, queryStart, satisfiedAt,
                    lastError, retryLog, report, slaPrint, sawEmpty >>

\* time.sleep(2) / time.sleep(0.5) at the end of the loop body
PSleep ==
    /\ ppc = "sleep"
    /\ now' = now + poll_sleep(test)
    /\ result' = NoResult
    /\ ppc' = "while"
    /\ UNCHANGED << test, found, queries, queryStart, satisfiedAt,
                    lastError, retryLog, report, actual_latency, slaPrint,
                    sawEmpty >>

\* faulty variant of PAssert: the latency test asserts its 5 s SLA
PAssert_StrictSla ==
    /\ ppc = "assert"
    /\ IF found /\ SlaPrint(test, actual_latency) # "exceeded"
       THEN /\ ppc' = "passed"
            /\ slaPrint' = SlaPrint(test, actual_latency)
            /\ UNCHANGED report
       ELSE /\ ppc' = "failed"
            /\ report' = AssertMessage(test, lastError)
            /\ UNCHANGED slaPrint
    /\ UNCHANGED << test, now, found, result, queries, queryStart, satisfiedAt,
                    lastError, retryLog, actual_latency, sawEmpty >>

\* assert ..._found, f"... not found ..."; the prints that follow it
PAssert ==
    /\ ppc = "assert"
    /\ IF found
       THEN /\ ppc' = "passed"
            /\ slaPrint' = SlaPrint(test, actual_latency)
            /\ UNCHANGED report
       ELSE /\ ppc' = "failed"
            /\ report' = AssertMessage(test, lastError)
            /\ UNCHANGED slaPrint
    /\ UNCHANGED << test, now, found, result, queries, queryStart, satisfiedAt,
                    lastError, retryLog, actual_latency, sawEmpty >>

(***************************************************************************)
(* The synthetic emitters: TelemetryGenerator of the e2e tests and the     *)
(* demo application apps/telemetry-generator/app.py                        *)
(***************************************************************************)

\* emitter calls made in one run
MaxCalls == 3

\* largest span_count passed to send_test_trace
MaxSpanCount == 3

\* identifiers are pairs <<kind, n>>; NoId stands for an absent attribute
NoId == << >>

\* str(uuid.uuid4()): the n-th call of uuid4 yields a value not seen before
\* faulty variant: the identifier is a constant
Uuid4Str_Constant(n) == << "uuid4", 1 >>

Uuid4Str(n) == << "uuid4", n + 1 >>

\* format(span.get_span_context().trace_id, '032x') of the n-th trace
Format032x(n) == << "032x", n >>

\* random.randint(1000, 9999): the two ends of the range
OperationIds == {1000, 9999}

\* the metric_name arguments: the two the method knows and one it does not
MetricNames == {"counter", "histogram", "gauge"}

\* the value arguments of send_test_metric
MetricValues == {42, 100}

\* the caller's labels argument, as one tag: every caller of
\* send_test_metric passes one label
CallerLabels == {"environment=test"}

\* what a call that did nothing looks like
NoCall ==
    [ op |-> "none", ids |-> {}, spans |-> {}, logs |-> {}, points |-> {},
      returned |-> NoId ]

\* faulty variant of Labels: the identifier is left out of the attribute set
Labels_NoTestId(test_id, trace_id, tag) ==
    [ test_id |-> NoId, trace_id |-> trace_id, tag |-> tag ]

\* the attribute set of a measurement
Labels(test_id, trace_id, tag) ==
    [ test_id |-> test_id, trace_id |-> trace_id, tag |-> tag ]

\* faulty variant of Span: nested spans are started outside the parent's context
Span_AllTop(c, t, top, id, idx) ==
    [ call |-> c, trace |-> t, top |-> TRUE, id |-> id, span_index |-> idx ]

\* a span as ended by the SDK: `top` tells the span opened by the call's own
\* `with tracer.start_as_current_span(...)` from the spans nested in it
Span(c, t, top, id, idx) ==
    [ call |-> c, trace |-> t, top |-> top, id |-> id, span_index |-> idx ]

LogRecord(c, n, level, id) ==
    [ call |-> c, seq |-> n, level |-> level, id |-> id ]

Point(instrument, value, labels) ==
    [ instrument |-> instrument, value |-> value, labels |-> labels ]

\* instrument.add / instrument.record: the SDK aggregates the measurement
\* into the series of its instrument and attribute set
Aggregate(series, pt) ==
    IF \E x \in series : x.instrument = pt.instrument /\ x.labels = pt.labels
    THEN { IF x.instrument = pt.instrument /\ x.labels = pt.labels
           THEN [x EXCEPT !.sum = @ + pt.value, !.count = @ + 1]
           ELSE x : x \in series }
    ELSE series \cup { [ instrument |-> pt.instrument, labels |-> pt.labels,
                         sum |-> pt.value, count |-> 1 ] }

RECURSIVE AggregateAll(_, _)
AggregateAll(series, pts) ==
    IF pts = << >> THEN series
    ELSE AggregateAll(Aggregate(series, Head(pts)), Tail(pts))

\* faulty variant of SentDuringCall: spans are exported as they end
\* (SimpleSpanProcessor)
SentDuringCall_Sync(items) == items

\* what the call itself sends to the backend: nothing; BatchSpanProcessor
\* queues the ended spans for its exporter thread
SentDuringCall(items) == {}

VARIABLES
    emitter,     \* the process: "TelemetryGenerator" or "app"
    calls,       \* emitter calls made so far
    uuids,       \* uuid.uuid4() calls made so far
    traces,      \* traces started so far
    ecall,       \* what the last call minted, created and returned
    sent,        \* one record per call: its op, arguments and identifier
    spanQueue,   \* ended spans waiting in the BatchSpanProcessor
    logQueue,    \* log records waiting in the BatchLogRecordProcessor
    sums,        \* the SDK's aggregated series
    collector,   \* series the collector got by the last metric export
    prom,        \* series Prometheus got by its last scrape
    tempo,       \* spans exported to Tempo
    loki         \* log records exported to Loki

evars == << emitter, calls, uuids, traces, ecall, sent, spanQueue, logQueue,
            sums, collector, prom, tempo, loki >>

\* the emitter process has started; nothing has been emitted
EInit ==
    /\ emitter \in {"TelemetryGenerator", "app"}
    /\ calls = 0
    /\ uuids = 0
    /\ traces = 0
    /\ ecall = NoCall
    /\ sent = {}
    /\ spanQueue = {}
    /\ logQueue = {}
    /\ sums = {}
    /\ collector = {}
    /\ prom = {}
    /\ tempo = {}
    /\ loki = {}

\* no emitter process is running
EIdle ==
    /\ emitter = "none"
    /\ calls = 0
    /\ uuids = 0
    /\ traces = 0
    /\ ecall = NoCall
    /\ sent = {}
    /\ spanQueue = {}
    /\ logQueue = {}
    /\ sums = {}
    /\ collector = {}
    /\ prom = {}
    /\ tempo = {}
    /\ loki = {}

\* the common end of every call: the spans, log records and measurements
\* the call has made are handed to the SDK, and the call returns
Emit(op, ids, spans, logs, pts, returned, args) ==
    /\ calls' = calls + 1
    /\ ecall' = [ op |-> op, ids |-> ids, spans |-> spans, logs |-> logs,
                  points |-> { pts[i] : i \in 1 .. Len(pts) },
                  returned |-> returned ]
    /\ sent' = sent \cup { [ call |-> calls + 1, op |-> op, args |-> args,
                             ids |-> ids, returned |-> returned ] }
    /\ tempo' = tempo \cup SentDuringCall(spans)
    /\ spanQueue' = spanQueue \cup (spans \ SentDuringCall(spans))
    /\ logQueue' = logQueue \cup logs
    /\ sums' = AggregateAll(sums, pts)
    /\ UNCHANGED << emitter, collector, prom, loki >>

\* faulty variant of send_test_metric: an unknown metric_name falls back to
\* the counter
send_test_metric_DefaultCounter ==
    /\ emitter = "TelemetryGenerator"
    /\ calls < MaxCalls
    /\ \E metric_name \in MetricNames, value \in MetricValues, tag \in CallerLabels :
        LET test_id == Uuid4Str(uuids)
            labels == Labels(test_id, NoId, tag)
            pts == IF metric_name = "histogram"
                       THEN << Point("e2e_test_duration", value, labels) >>
                   ELSE << Point("e2e_test_counter", value, labels) >>
        IN  Emit("send_test_metric", {test_id}, {}, {}, pts, test_id,
                 << metric_name, value >>)
    /\ uuids' = uuids + 1
    /\ UNCHANGED traces

\* TelemetryGenerator.send_test_metric(metric_name, value, labels)
send_test_metric ==
    /\ emitter = "TelemetryGenerator"
    /\ calls < MaxCalls
    /\ \E metric_name \in MetricNames, value \in MetricValues, tag \in CallerLabels :
        LET test_id == Uuid4Str(uuids)
            labels == Labels(test_id, NoId, tag)
            pts == IF metric_name = "counter"
                       THEN << Point("e2e_test_counter", value, labels) >>
                   ELSE IF metric_name = "histogram"
                       THEN << Point("e2e_test_duration", value, labels) >>
                   ELSE << >>
        IN  Emit("send_test_metric", {test_id}, {}, {}, pts, test_id,
                 << metric_name, value >>)
    /\ uuids' = uuids + 1
    /\ UNCHANGED traces

\* str(i) of a child's index; NoIndex for a span without the attribute
Str(i) == << "str", i >>
NoIndex == << >>

\* faulty variant of send_test_trace: the loop makes span_count children
send_test_trace_OffByOne ==
    /\ emitter = "TelemetryGenerator"
    /\ calls < MaxCalls
    /\ \E span_count \in 0 .. MaxSpanCount :
        LET test_id == Uuid4Str(uuids)
            t == traces + 1
            parent == Span(calls + 1, t, TRUE, test_id, NoIndex)
            children == { Span(calls + 1, t, FALSE, test_id, Str(i)) :
                            i \in 0 .. (span_count - 1) }
        IN  Emit("send_test_trace", {test_id}, {parent} \cup children, {},
                 << >>, Format032x(t), << span_count >>)
    /\ uuids' = uuids + 1
    /\ traces' = traces + 1

\* TelemetryGenerator.send_test_trace(trace_name, span_count, labels)
send_test_trace ==
    /\ emitter = "TelemetryGenerator"
    /\ calls < MaxCalls
    /\ \E span_count \in 0 .. MaxSpanCount :
        LET test_id == Uuid4Str(uuids)
            t == traces + 1
            parent == Span(calls + 1, t, TRUE, test_id, NoIndex)
            children == { Span(calls + 1, t, FALSE, test_id, Str(i)) :
                            i \in 0 .. (span_count - 2) }
        IN  Emit("send_test_trace", {test_id}, {parent} \cup children, {},
                 << >>, Format032x(t), << span_count >>)
    /\ uuids' = uuids + 1
    /\ traces' = traces + 1

\* TelemetryGenerator.send_correlated_telemetry(trace_name)
send_correlated_telemetry ==
    /\ emitter = "TelemetryGenerator"
    /\ calls < MaxCalls
    /\ LET test_id == Uuid4Str(uuids)
           t == traces + 1
           labels == Labels(test_id, Format032x(t), "correlated=true")
       IN  Emit("send_correlated_telemetry", {test_id},
                { Span(calls + 1, t, TRUE, test_id, NoIndex) }, {},
                << Point("e2e_test_counter", 1, labels) >>, test_id, << >>)
    /\ uuids' = uuids + 1
    /\ traces' = traces + 1

\* faulty variant of index: the health check counts as a request
index_Counted ==
    /\ emitter = "app"
    /\ calls < MaxCalls
    /\ Emit("index", {}, {}, {},
            << Point("requests_total", 1,
                     Labels(NoId, NoId, "endpoint=/,status=success")) >>,
            NoId, << >>)
    /\ UNCHANGED << uuids, traces >>

\* app.py index(): GET /
index ==
    /\ emitter = "app"
    /\ calls < MaxCalls
    /\ Emit("index", {}, {}, {}, << >>, NoId, << >>)
    /\ UNCHANGED << uuids, traces >>

\* app.py generate(): GET /generate
generate ==
    /\ emitter = "app"
    /\ calls < MaxCalls
    /\ \E n \in OperationIds :
        LET operation_id == << "int", n >>
            t == traces + 1
        IN  Emit("generate", {operation_id},
                 { Span(calls + 1, t, TRUE, operation_id, NoIndex) },
                 { LogRecord(calls + 1, 1, "info", operation_id),
                   LogRecord(calls + 1, 2, "info", operation_id) },
                 << Point("requests_total", 1,
                          Labels(NoId, NoId, "endpoint=/generate,status=success")),
                    Point("processing_duration_seconds", 1,
                          Labels(NoId, NoId, "endpoint=/generate")) >>,
                 operation_id, << >>)
    /\ traces' = traces + 1
    /\ UNCHANGED uuids

\* app.py generate_error(): GET /error
generate_error ==
    /\ emitter = "app"
    /\ calls < MaxCalls
    /\ Emit("generate_error", {},
            { Span(calls + 1, traces + 1, TRUE, NoId, NoIndex) },
            { LogRecord(calls + 1, 1, "error", NoId) },
            << Point("requests_total", 1,
                     Labels(NoId, NoId, "endpoint=/error,status=error")) >>,
            NoId, << >>)
    /\ traces' = traces + 1
    /\ UNCHANGED uuids

\* app.py slow_request(): GET /slow
slow_request ==
    /\ emitter = "app"
    /\ calls < MaxCalls
    /\ Emit("slow_request", {},
            { Span(calls + 1, traces + 1, TRUE, NoId, NoIndex) },
            { LogRecord(calls + 1, 1, "warning", NoId) },
            << Point("requests_total", 1,
                     Labels(NoId, NoId, "endpoint=/slow,status=success")),
               Point("processing_duration_seconds", 1,
                     Labels(NoId, NoId, "endpoint=/slow")) >>,
            NoId, << >>)
    /\ traces' = traces + 1
    /\ UNCHANGED uuids

\* the BatchSpanProcessor's exporter thread sends the queued spans
ExportSpans ==
    /\ spanQueue # {}
    /\ tempo' = tempo \cup spanQueue
    /\ spanQueue' = {}
    /\ UNCHANGED << emitter, calls, uuids, traces, ecall, sent, logQueue, sums,
                    collector, prom, loki >>

\* the BatchLogRecordProcessor's exporter thread sends the queued records
ExportLogs ==
    /\ logQueue # {}
    /\ loki' = loki \cup logQueue
    /\ logQueue' = {}
    /\ UNCHANGED << emitter, calls, uuids, traces, ecall, sent, spanQueue, sums,
                    collector, prom, tempo >>

\* the PeriodicExportingMetricReader exports the cumulative series
ExportMetrics ==
    /\ collector # sums
    /\ collector' = sums
    /\ UNCHANGED << emitter, calls, uuids, traces, ecall, sent, spanQueue,
                    logQueue, sums, prom, tempo, loki >>

\* Prometheus scrapes the series the collector holds
Scrape ==
    /\ prom # collector
    /\ prom' = collector
    /\ UNCHANGED << emitter, calls, uuids, traces, ecall, sent, spanQueue,
                    logQueue, sums, collector, tempo, loki >>

(***************************************************************************)
(* A pytest session over one integration test file: which readiness        *)
(* fixtures a test requests and which service its body sends to            *)
(***************************************************************************)

TestFiles == { "test_alloy_and_dashboards.py", "test_loki_integration.py" }

wait_for_alloy == "test_alloy_and_dashboards.wait_for_alloy"
wait_for_loki == "test_loki_integration.wait_for_loki"

\* a test function: the readiness fixtures among its parameters, the
\* service its body sends to, and whether by requests.get/post or by a
\* bare socket connect_ex
TestFunction(name, waiters, service, via) ==
    [ name |-> name, waiters |-> waiters, service |-> service, via |-> via ]

\* the test functions of each file, in the order pytest runs them
Tests(f) ==
    CASE f = "test_alloy_and_dashboards.py" ->
        << TestFunction("test_alloy_metrics_port_open", {}, "Alloy", "socket"),
           TestFunction("test_alloy_metrics_endpoint", {wait_for_alloy}, "Alloy", "http"),
           TestFunction("test_alloy_has_docker_metrics", {wait_for_alloy}, "Alloy", "http"),
           TestFunction("test_alloy_can_write_to_loki", {wait_for_alloy}, "Alloy", "http"),
           TestFunction("test_prometheus_has_otel_metrics", {}, "Prometheus", "http"),
           TestFunction("test_prometheus_has_alertmanager_metrics", {}, "Prometheus", "http"),
           TestFunction("test_loki_receives_docker_logs", {}, "Loki", "http"),
           TestFunction("test_loki_has_compose_service_labels", {}, "Loki", "http"),
           TestFunction("test_tempo_is_ready", {}, "Tempo", "http"),
           TestFunction("test_tempo_has_traces", {}, "Tempo", "http"),
           TestFunction("test_loki_datasource_has_trace_correlation", {}, "Grafana", "http"),
           TestFunction("test_tempo_datasource_has_service_map", {}, "Grafana", "http"),
           TestFunction("test_infrastructure_dashboard_has_log_panel", {}, "Grafana", "http"),
           TestFunction("test_application_performance_dashboard_queries_valid", {}, "Grafana", "http"),
           TestFunction("test_observability_stack_health_dashboard_panels", {}, "Grafana", "http") >>
      [] f = "test_loki_integration.py" ->
        << TestFunction("test_loki_is_ready", {wait_for_loki}, "Loki", "http"),
           TestFunction("test_loki_status", {wait_for_loki}, "Loki", "http"),
           TestFunction("test_loki_version", {wait_for_loki}, "Loki", "http"),
           TestFunction("test_loki_http_port_open", {}, "Loki", "socket"),
           TestFunction("test_loki_grpc_port_open", {}, "Loki", "socket"),
           TestFunction("test_loki_metrics_endpoint", {wait_for_loki}, "Loki", "http"),
           TestFunction("test_loki_labels_endpoint", {wait_for_loki}, "Loki", "http"),
           TestFunction("test_loki_label_values_endpoint", {wait_for_loki}, "Loki", "http"),
           TestFunction("test_loki_can_query_logs", {wait_for_loki}, "Loki", "http"),
           TestFunction("test_loki_push_endpoint_accessible", {wait_for_loki}, "Loki", "http"),
           TestFunction("test_loki_config_endpoint", {wait_for_loki}, "Loki", "http"),
           TestFunction("test_loki_can_receive_logs", {wait_for_loki}, "Loki", "http"),
           TestFunction("test_loki_storage_accessible", {wait_for_loki}, "Loki", "http"),
           TestFunction("test_alloy_is_running", {}, "Alloy", "socket"),
           TestFunction("test_alloy_metrics_endpoint", {}, "Alloy", "http") >>
      [] OTHER -> << >>

\* how a session-scoped readiness fixture ends: it returns, or pytest.fail
WaiterOutcomes == {"returned", "failed"}

\* the services the readiness fixtures in ws have found ready
Awaited(ws) ==
    UNION { { components(w)[k] : k \in 1 .. Len(components(w)) } : w \in ws }

NoRequest == [ test |-> "", service |-> "", via |-> "", awaited |-> FALSE ]

VARIABLES
    testfile,          \* the test file of the session
    tpos,              \* index in Tests(testfile) of the last test run
    returnedWaiters,   \* cached session fixtures that returned
    failedWaiters,     \* cached session fixtures that ended in pytest.fail
    request,           \* what the body of the last test sent, NoRequest if it did not run
    outcome,           \* "error" if a fixture of the last test failed, else its result
    sentTo             \* services that got a request in this session

svars == << testfile, tpos, returnedWaiters, failedWaiters, request, outcome,
            sentTo >>

\* pytest has collected the tests of one file
SInit ==
    /\ testfile \in TestFiles
    /\ tpos = 0
    /\ returnedWaiters = {}
    /\ failedWaiters = {}
    /\ request = NoRequest
    /\ outcome = "none"
    /\ sentTo = {}

\* no pytest session is running
SIdle ==
    /\ testfile = "none"
    /\ tpos = 0
    /\ returnedWaiters = {}
    /\ failedWaiters = {}
    /\ request = NoRequest
    /\ outcome = "none"
    /\ sentTo = {}

\* pytest runs the next selected test: it sets up the session fixtures the
\* test requests that are not cached yet, and if all of them returned it
\* runs the body, which sends its request
RunTest ==
    /\ \E i \in (tpos + 1) .. Len(Tests(testfile)) :
        LET t == Tests(testfile)[i]
            unset == t.waiters \ (returnedWaiters \cup failedWaiters)
        IN  \E o \in [unset -> WaiterOutcomes] :
              LET ret == returnedWaiters \cup { w \in unset : o[w] = "returned" }
              IN  /\ returnedWaiters' = ret
                  /\ failedWaiters' = failedWaiters \cup { w \in unset : o[w] = "failed" }
                  /\ tpos' = i
                  /\ IF t.waiters \subseteq ret
                     THEN /\ request' = [ test |-> t.name, service |-> t.service,
                                          via |-> t.via,
                                          awaited |-> t.service \in Awaited(ret) ]
                          /\ outcome' \in {"passed", "failed"}
                          /\ sentTo' = sentTo \cup {t.service}
                     ELSE /\ request' = NoRequest
                          /\ outcome' = "error"
                          /\ UNCHANGED sentTo
    /\ UNCHANGED testfile

(***************************************************************************)
(* The required-sections tests of the configuration validators             *)
(***************************************************************************)

Validators ==
    { "test_otel_config_validation", "test_tempo_config_validation",
      "test_loki_config_validation", "test_prometheus_config_validation" }

\* faulty variant of required_sections: the OTel list lacks 'service'
required_sections_NoService(v) ==
    CASE v = "test_otel_config_validation"   -> << "receivers", "processors", "exporters" >>
      [] v = "test_tempo_config_validation"  -> << "server", "distributor", "ingester", "storage" >>
      [] v = "test_loki_config_validation"   -> << "server", "schema_config" >>
      [] v = "test_prometheus_config_validation" -> << "global" >>

\* required_sections of each test ('global' alone for Prometheus)
required_sections(v) ==
    CASE v = "test_otel_config_validation"   -> << "receivers", "processors", "exporters", "service" >>
      [] v = "test_tempo_config_validation"  -> << "server", "distributor", "ingester", "storage" >>
      [] v = "test_loki_config_validation"   -> << "server", "schema_config" >>
      [] v = "test_prometheus_config_validation" -> << "global" >>

\* a top-level section no test requires
OptionalSections == {"extensions"}

\* the top-level keys a document of the model may have
Sections(v) ==
    { required_sections(v)[i] : i \in 1 .. Len(required_sections(v)) }
        \cup OptionalSections

\* the loop `for section in required_sections: assert section in config`
\* on config = yaml.safe_load(f): None for an empty document, for which
\* `in` raises TypeError
RequiredSectionsTest(v, keys, isNone) ==
    IF isNone THEN "TypeError"
    ELSE IF \A i \in 1 .. Len(required_sections(v)) : required_sections(v)[i] \in keys
         THEN "passed"
    ELSE "AssertionError"

NoEdit == [ op |-> "none", key |-> "" ]

VARIABLES
    validator,      \* the test module
    config,         \* top-level keys of the document in the config file
    configIsNone,   \* the file is empty: yaml.safe_load gives None
    verdict,        \* result of the test on the present file, "none" if not run
    origin,         \* the keys of the valid document the file started as
    lastEdit        \* the last change made to the file

cvars == << validator, config, configIsNone, verdict, origin, lastEdit >>

\* the config file holds a valid document: the required sections alone, or
\* with an optional one
CInit ==
    /\ validator \in Validators
    /\ origin \in { { required_sections(validator)[i] :
                        i \in 1 .. Len(required_sections(validator)) } \cup x :
                    x \in SUBSET OptionalSections }
    /\ config = origin
    /\ configIsNone = FALSE
    /\ verdict = "none"
    /\ lastEdit = NoEdit

\* no validator is under test
CIdle ==
    /\ validator = "none"
    /\ origin = {}
    /\ config = {}
    /\ configIsNone = FALSE
    /\ verdict = "none"
    /\ lastEdit = NoEdit

\* a top-level section is deleted from the file; a file left without keys
\* is either `{}` or empty
RemoveSection ==
    /\ \E k \in config :
        /\ config' = config \ {k}
        /\ configIsNone' \in (IF config' = {} THEN BOOLEAN ELSE {FALSE})
        /\ lastEdit' = [ op |-> "remove", key |-> k ]
    /\ verdict' = "none"
    /\ UNCHANGED << validator, origin >>

\* a top-level section is added to the file
AddSection ==
    /\ \E k \in Sections(validator) \ config :
        /\ config' = config \cup {k}
        /\ lastEdit' = [ op |-> "add", key |-> k ]
    /\ configIsNone' = FALSE
    /\ verdict' = "none"
    /\ UNCHANGED << validator, origin >>

\* test_all_required_sections_present / test_required_sections_present
test_required_sections_present ==
    /\ validator \in Validators
    /\ verdict = "none"
    /\ verdict' = RequiredSectionsTest(validator, config, configIsNone)
    /\ UNCHANGED << validator, config, configIsNone, origin, lastEdit >>

(***************************************************************************)
(* test_all_configured_targets_are_up of test_prometheus_scraping.py       *)
(***************************************************************************)

\* most series the `up` query returns
MaxTargets == 3

\* the job label of an `up` series ("unknown" when the label is missing)
Jobs == { "prometheus", "otel-collector", "alertmanager", "homeassistant", "unknown" }

\* float(result["value"][1]) of an `up` series
UpValues == {0, 1}

optional_services == {"homeassistant"}

RECURSIVE DownTargets(_, _)
\* the jobs of the series with up_value != 1.0 that are (optional = TRUE)
\* or are not (optional = FALSE) in optional_services, in result order
DownTargets(rs, optional) ==
    IF rs = << >> THEN << >>
    ELSE IF Head(rs).up # 1 /\ ((Head(rs).job \in optional_services) = optional)
         THEN << Head(rs).job >> \o DownTargets(Tail(rs), optional)
    ELSE DownTargets(Tail(rs), optional)

VARIABLES
    results,                 \* data["result"] of the `up` query
    targetsVerdict,          \* result of the test, "none" before it ran
    down_core_targets,       \* as built by the loop
    down_optional_targets    \* as built by the loop

tvars == << results, targetsVerdict, down_core_targets, down_optional_targets >>

\* Prometheus has answered the `up` query
TInit ==
    /\ results \in UNION { [1 .. n -> [job : Jobs, up : UpValues]] : n \in 0 .. MaxTargets }
    /\ targetsVerdict = "none"
    /\ down_core_targets = << >>
    /\ down_optional_targets = << >>

\* the test is not running
TIdle ==
    /\ results = << >>
    /\ targetsVerdict = "idle"
    /\ down_core_targets = << >>
    /\ down_optional_targets = << >>

\* the body of the test after the query
test_all_configured_targets_are_up ==
    /\ targetsVerdict = "none"
    /\ IF Len(results) = 0
       THEN /\ targetsVerdict' = "failed"
            /\ UNCHANGED << down_core_targets, down_optional_targets >>
       ELSE /\ down_core_targets' = DownTargets(results, FALSE)
            /\ down_optional_targets' = DownTargets(results, TRUE)
            /\ targetsVerdict' = IF Len(DownTargets(results, FALSE)) = 0
                                 THEN "passed" ELSE "failed"
    /\ UNCHANGED results

(***************************************************************************)
(* test_queue_not_full of test_otel_collector.py                           *)
(***************************************************************************)

\* most lines of the collector's metrics text
MaxLines == 2

queue_size == "otelcol_exporter_queue_size"
queue_capacity == "otelcol_exporter_queue_capacity"

\* the metric names at the start of the lines of the text
LineNames == { queue_size, queue_capacity, "otelcol_exporter_sent_spans" }

\* the exporter label of a sample line
Exporters == { "otlp", "loki" }

\* float(parts[-1]) of a sample line
SampleValues == {0, 8, 10}

\* a line of the text: a sample `name{exporter="..."} value`, or a comment
\* `# HELP name ...`
MetricLines ==
    [ comment : {FALSE}, name : LineNames, exporter : Exporters, value : SampleValues ]
    \cup [ comment : {TRUE}, name : { queue_size, queue_capacity }, exporter : {""}, value : {0} ]

\* line.startswith(metric_name): a comment line starts with '#'
StartsWith(line, metric_name) ==
    ~line.comment /\ line.name = metric_name

\* parse_prometheus_metric: the lines that start with metric_name
parse_prometheus_metric(metrics_text, metric_name) ==
    SelectSeq(metrics_text, LAMBDA line : StartsWith(line, metric_name))

\* a key of the dict that is absent
NoValue == -1

\* the key under which queue_data.setdefault files a line's value: the
\* whole line
QueueKey(line) == line

\* queue_data after the two loops: for each key the 'size' and the
\* 'capacity' filed under it
QueueData(size_lines, capacity_lines) ==
    LET Filed(ls, k) == { i \in 1 .. Len(ls) : QueueKey(ls[i]) = k }
        Last(ls, k) == ls[CHOOSE i \in Filed(ls, k) : \A j \in Filed(ls, k) : j <= i].value
        Keys(ls) == { QueueKey(ls[i]) : i \in 1 .. Len(ls) }
    IN  [ k \in Keys(size_lines) \cup Keys(capacity_lines) |->
            [ size     |-> IF Filed(size_lines, k) # {} THEN Last(size_lines, k)
                           ELSE NoValue,
              capacity |-> IF Filed(capacity_lines, k) # {} THEN Last(capacity_lines, k)
                           ELSE NoValue ] ]

\* the condition of the assert in the last loop fails for some entry:
\* utilization = size / capacity is not < 0.8
TooFull(data) ==
    \E k \in DOMAIN data :
        /\ data[k].size # NoValue /\ data[k].capacity # NoValue
        /\ data[k].capacity > 0
        /\ ~(10 * data[k].size < 8 * data[k].capacity)

VARIABLES
    metrics,        \* the lines of the text get_otel_metrics returned
    queue_data,     \* the dict the test builds
    queueVerdict    \* result of the test, "none" before it ran

qvars == << metrics, queue_data, queueVerdict >>

\* the collector has answered GET /metrics
QInit ==
    /\ metrics \in UNION { [1 .. n -> MetricLines] : n \in 0 .. MaxLines }
    /\ queue_data = << >>
    /\ queueVerdict = "none"

\* the test is not running
QIdle ==
    /\ metrics = << >>
    /\ queue_data = << >>
    /\ queueVerdict = "idle"

\* the body of the test after get_otel_metrics
test_queue_not_full ==
    /\ queueVerdict = "none"
    /\ LET size_lines == parse_prometheus_metric(metrics, queue_size)
           capacity_lines == parse_prometheus_metric(metrics, queue_capacity)
       IN  /\ queue_data' = QueueData(size_lines, capacity_lines)
           /\ queueVerdict' = IF TooFull(QueueData(size_lines, capacity_lines))
                              THEN "failed" ELSE "passed"
    /\ UNCHANGED metrics

(***************************************************************************)
(* test_pipeline_references_valid of test_otel_config_validation.py        *)
(***************************************************************************)

\* component names used in the documents
ComponentNames == { "otlp", "batch" }

\* what yaml.safe_load gives for a top-level section: the key is absent,
\* its value is null (`receivers:` with nothing under it), or a mapping
SectionValues ==
    { [ state |-> "absent", keys |-> {} ], [ state |-> "null", keys |-> {} ],
      [ state |-> "mapping", keys |-> {"otlp"} ] }

\* what a pipeline has under 'receivers', 'processors' or 'exporters': the
\* key is absent, its value is null, or a list of names
ListValues ==
    { [ state |-> "absent", items |-> << >> ], [ state |-> "null", items |-> << >> ] }
    \cup { [ state |-> "list", items |-> << n >> ] : n \in ComponentNames }

Pipelines == [ receivers : ListValues, processors : ListValues, exporters : ListValues ]

\* config.get(kind, {}).keys() raises AttributeError on None
KeysRaises(section) == section.state = "null"

\* set(config.get(kind, {}).keys())
DefinedKeys(section) == section.keys

\* the loop `for name in pipeline.get(kind, []): assert name in defined`:
\* iterating None raises TypeError
ReferenceCheck(list, defined) ==
    IF list.state = "null" THEN "TypeError"
    ELSE IF \A i \in 1 .. Len(list.items) : list.items[i] \in defined THEN "ok"
    ELSE "AssertionError"

\* the body of the loop over the pipelines: receivers, then processors,
\* then exporters; the first failure ends the test
PipelineCheck(p, cfg) ==
    LET r == ReferenceCheck(p.receivers, DefinedKeys(cfg.receivers))
        q == ReferenceCheck(p.processors, DefinedKeys(cfg.processors))
        x == ReferenceCheck(p.exporters, DefinedKeys(cfg.exporters))
    IN  IF r # "ok" THEN r ELSE IF q # "ok" THEN q ELSE x

RECURSIVE PipelinesCheck(_, _)
PipelinesCheck(ps, cfg) ==
    IF ps = << >> THEN "passed"
    ELSE IF PipelineCheck(Head(ps), cfg) # "ok" THEN PipelineCheck(Head(ps), cfg)
    ELSE PipelinesCheck(Tail(ps), cfg)

VARIABLES
    otelConfig,    \* the loaded collector config: its three sections and
                   \* the pipelines of service.pipelines in document order
    refVerdict     \* result of the test, "none" before it ran

rvars == << otelConfig, refVerdict >>

\* numbers of pipelines under service.pipelines in the documents
PipelineCounts == 0 .. 2

\* a collector config with a service.pipelines mapping has been written
RInit ==
    /\ otelConfig \in [ receivers : SectionValues, processors : SectionValues,
                        exporters : SectionValues,
                        pipelines : UNION { [1 .. n -> Pipelines] : n \in PipelineCounts } ]
    /\ refVerdict = "none"

\* the test is not running
RIdle ==
    /\ otelConfig = [ receivers |-> [ state |-> "absent", keys |-> {} ],
                      processors |-> [ state |-> "absent", keys |-> {} ],
                      exporters |-> [ state |-> "absent", keys |-> {} ],
                      pipelines |-> << >> ]
    /\ refVerdict = "idle"

\* the body of the test
test_pipeline_references_valid ==
    /\ refVerdict = "none"
    /\ refVerdict' =
         IF \E k \in { otelConfig.receivers, otelConfig.processors, otelConfig.exporters } :
                KeysRaises(k)
         THEN "AttributeError"
         ELSE PipelinesCheck(otelConfig.pipelines, otelConfig)
    /\ UNCHANGED otelConfig

(***************************************************************************)
(* parse_prometheus_metrics of integration/conftest.py                     *)
(***************************************************************************)

\* most lines of the text handed to parse_prometheus_metrics
MaxTextLines == 3

\* lines are sequences of characters; the lines a text is made of: empty,
\* blanks only, comments, samples without and with labels, a sample with a
\* leading blank, a sample whose value follows a tab, a name alone, and a
\* sample with a blank before its '{'
TextLines ==
    { << >>,
      << " " >>,
      << "#", " ", "a" >>,
      << " ", "#" >>,
      << "a", " ", "1" >>,
      << "a", "{", "}", " ", "1" >>,
      << "b", " ", "1" >>,
      << " ", "a", " ", "1" >>,
      << "a", "\t", "1" >>,
      << "a" >>,
      << "b", " ", "{", "}", " ", "1" >> }

\* the characters str.strip() removes
IsSpace(c) == c \in { " ", "\t" }

RECURSIVE LStrip(_)
LStrip(s) ==
    IF s # << >> /\ IsSpace(Head(s)) THEN LStrip(Tail(s)) ELSE s

RECURSIVE RStrip(_)
RStrip(s) ==
    IF s # << >> /\ IsSpace(s[Len(s)]) THEN RStrip(SubSeq(s, 1, Len(s) - 1)) ELSE s

\* line.strip()
Strip(s) == RStrip(LStrip(s))

\* c in line
Contains(s, c) == \E i \in 1 .. Len(s) : s[i] = c

\* line.split(c)[0]: the text before the first c
SplitHead(s, c) ==
    LET first == CHOOSE i \in 1 .. Len(s) : s[i] = c /\ \A j \in 1 .. (i - 1) : s[j] # c
    IN  SubSeq(s, 1, first - 1)

\* `if not line or line.startswith('#'): continue` and the final
\* `else: continue` of a line with neither '{' nor ' '
Skipped(line) ==
    \/ line = << >>
    \/ line[1] = "#"
    \/ ~Contains(line, "{") /\ ~Contains(line, " ")

\* faulty variant of MetricName: the blank is looked for before the '{'
MetricName_SpaceFirst(line) ==
    IF Contains(line, " ") THEN SplitHead(line, " ") ELSE SplitHead(line, "{")

\* the metric name of a stripped line: before '{', else before ' '
MetricName(line) ==
    IF Contains(line, "{") THEN SplitHead(line, "{") ELSE SplitHead(line, " ")

\* metrics[metric_name].append(line), the list being created if absent;
\* sofar is the dict `metrics` as built so far
AppendLine(sofar, line) ==
    LET name == MetricName(line)
    IN  [ n \in DOMAIN sofar \cup {name} |->
            IF n # name THEN sofar[n]
            ELSE IF name \in DOMAIN sofar THEN Append(sofar[name], line)
            ELSE << line >> ]

RECURSIVE ParseLines(_, _)
\* the loop over text.split('\n')
ParseLines(sofar, lines) ==
    IF lines = << >> THEN sofar
    ELSE IF Skipped(Strip(Head(lines))) THEN ParseLines(sofar, Tail(lines))
    ELSE ParseLines(AppendLine(sofar, Strip(Head(lines))), Tail(lines))

VARIABLES
    text,       \* text.split('\n') of the argument
    parsed,     \* the returned dict
    parseDone   \* the function has returned

mvars == << text, parsed, parseDone >>

\* a metrics text is at hand
MInit ==
    /\ text \in UNION { [1 .. n -> TextLines] : n \in 0 .. MaxTextLines }
    /\ parsed = << >>
    /\ parseDone = FALSE

\* nothing is being parsed
MIdle ==
    /\ text = << >>
    /\ parsed = << >>
    /\ parseDone = TRUE

\* metrics = parse_prometheus_metrics(text)
parse_prometheus_metrics ==
    /\ ~parseDone
    /\ parsed' = ParseLines(<< >>, text)
    /\ parseDone' = TRUE
    /\ UNCHANGED text

(***************************************************************************)
(* The server port tests of test_loki_config_validation.py and             *)
(* test_tempo_config_validation.py                                         *)
(***************************************************************************)

PortValidators == { "test_loki_config_validation", "test_tempo_config_validation" }

\* what yaml.safe_load gives for the value of a port key: an int, a bool
\* (`true`, `yes`, `on`: n is its value as a number), a float, a string,
\* null; NoKey stands for a key that is absent
NoKey == [ type |-> "absent", n |-> 0 ]
PortValues ==
    [ type : {"int"}, n : {-1, 0, 1, 3100, 65535, 65536} ]
    \cup [ type : {"bool"}, n : {0, 1} ]
    \cup [ type : {"float", "str"}, n : {3100} ]
    \cup [ type : {"null"}, n : {0} ]

\* isinstance(port, int): bool is a subclass of int
IsInstanceInt(v) == v.type \in {"int", "bool"}

\* assert isinstance(port, int); assert 1 <= port <= 65535
PortAsserts(v) ==
    IF IsInstanceInt(v) /\ 1 <= v.n /\ v.n <= 65535 THEN "passed" ELSE "AssertionError"

VARIABLES
    portValidator,   \* the test module
    server,          \* config['server']: its http_listen_port and grpc_listen_port
    httpDefined,     \* result of test_http_listen_port_defined, "none" if not run
    httpValid,       \* result of test_http_listen_port_valid
    grpcValid        \* result of test_grpc_listen_port_valid / _defined

ovars == << portValidator, server, httpDefined, httpValid, grpcValid >>

\* a config file with a server section has been written
OInit ==
    /\ portValidator \in PortValidators
    /\ server \in [ http_listen_port : PortValues \cup {NoKey},
                    grpc_listen_port : PortValues \cup {NoKey} ]
    /\ httpDefined = "none"
    /\ httpValid = "none"
    /\ grpcValid = "none"

\* no port test is running
OIdle ==
    /\ portValidator = "none"
    /\ server = [ http_listen_port |-> NoKey, grpc_listen_port |-> NoKey ]
    /\ httpDefined = "none"
    /\ httpValid = "none"
    /\ grpcValid = "none"

\* assert 'http_listen_port' in config['server']
test_http_listen_port_defined ==
    /\ portValidator \in PortValidators
    /\ httpDefined = "none"
    /\ httpDefined' = IF server.http_listen_port = NoKey THEN "AssertionError" ELSE "passed"
    /\ UNCHANGED << portValidator, server, httpValid, grpcValid >>

\* port = config['server']['http_listen_port'] and the two asserts
test_http_listen_port_valid ==
    /\ portValidator \in PortValidators
    /\ httpValid = "none"
    /\ httpValid' = IF server.http_listen_port = NoKey THEN "KeyError"
                    ELSE PortAsserts(server.http_listen_port)
    /\ UNCHANGED << portValidator, server, httpDefined, grpcValid >>

\* if 'grpc_listen_port' in config['server']: the two asserts
\* (test_grpc_listen_port_valid of Loki, test_grpc_listen_port_defined of Tempo)
test_grpc_listen_port_valid ==
    /\ portValidator \in PortValidators
    /\ grpcValid = "none"
    /\ grpcValid' = IF server.grpc_listen_port = NoKey THEN "passed"
                    ELSE PortAsserts(server.grpc_listen_port)
    /\ UNCHANGED << portValidator, server, httpDefined, httpValid >>

(***************************************************************************)
(* test_trace_and_metric_correlation of test_telemetry_flow.py             *)
(***************************************************************************)

\* what tempo_query(trace_id) can produce: trace data, an empty body, or
\* an exception
TempoOutcomes ==
    [ kind : {"found", "empty"}, err : {NoError} ] \cup [ kind : {"raise"}, err : Errors ]

NoLookup == [ kind |-> "none", err |-> NoError ]

\* the condition under which the try block reaches `metric_found = True`:
\* a non-empty result whose labels pass the four asserts
CorrelationSatisfied(r) ==
    r.kind = "result" /\ r.nonempty /\ r.valid

VARIABLES
    kpc,           \* position in the test
    know,          \* ticks since send_correlated_telemetry returned
    kqueries,      \* Prometheus queries issued
    kqueryAt,      \* value of know when the Prometheus query was issued
    kresult,       \* outcome of the Prometheus query
    klookupAt,     \* value of know when the Tempo lookup was issued
    metric_found,  \* the flag the final assert tests
    trace_lookup,  \* outcome of the Tempo lookup, NoLookup before it
    trace_found,   \* the flag set by the Tempo lookup
    kprinted       \* the exception printed by an except clause, NoError if none

kvars == << kpc, know, kqueries, kqueryAt, kresult, klookupAt, metric_found,
            trace_lookup, trace_found, kprinted >>

\* the test has got its fixtures
KInit ==
    /\ kpc = "start"
    /\ know = 0
    /\ kqueries = 0
    /\ kqueryAt = 0
    /\ kresult = NoResult
    /\ klookupAt = 0
    /\ metric_found = FALSE
    /\ trace_lookup = NoLookup
    /\ trace_found = FALSE
    /\ kprinted = NoError

\* the test is not running
KIdle ==
    /\ kpc = "idle"
    /\ know = 0
    /\ kqueries = 0
    /\ kqueryAt = 0
    /\ kresult = NoResult
    /\ klookupAt = 0
    /\ metric_found = FALSE
    /\ trace_lookup = NoLookup
    /\ trace_found = FALSE
    /\ kprinted = NoError

\* send_correlated_telemetry, time.sleep(15)
KSend ==
    /\ kpc = "start"
    /\ know' = 30
    /\ kpc' = "query"
    /\ UNCHANGED << kqueries, kqueryAt, kresult, klookupAt, metric_found,
                    trace_lookup, trace_found, kprinted >>

\* try: result = prometheus_query(...); the asserts; metric_found = True
\* except Exception as e: print
KQuery ==
    /\ kpc = "query"
    /\ \E r \in QueryResults, d \in QueryDurations :
        /\ kresult' = r
        /\ know' = know + d
        /\ metric_found' = CorrelationSatisfied(r)
        /\ kprinted' = IF r.kind = "raise" THEN r.err
                       ELSE IF r.nonempty /\ ~r.valid THEN AssertionError
                       ELSE NoError
    /\ kqueries' = kqueries + 1
    /\ kqueryAt' = know
    /\ kpc' = "assert"
    /\ UNCHANGED << klookupAt, trace_lookup, trace_found >>

\* assert metric_found, f"Metric with trace_id={trace_id} not found"
KAssert ==
    /\ kpc = "assert"
    /\ kpc' = IF metric_found THEN "lookup" ELSE "failed"
    /\ UNCHANGED << know, kqueries, kqueryAt, kresult, klookupAt, metric_found,
                    trace_lookup, trace_found, kprinted >>

\* faulty variant of KLookup: the lookup is made outside a try statement
KLookup_Propagate ==
    /\ kpc = "lookup"
    /\ \E o \in TempoOutcomes, d \in QueryDurations :
        /\ trace_lookup' = o
        /\ know' = know + d
        /\ trace_found' = (o.kind = "found")
        /\ kprinted' = IF o.kind = "raise" THEN o.err ELSE kprinted
        /\ kpc' = IF o.kind = "raise" THEN "failed" ELSE "print"
    /\ klookupAt' = know
    /\ UNCHANGED << kqueries, kqueryAt, kresult, metric_found >>

\* try: trace_data = tempo_query(trace_id); if trace_data: trace_found = True
\* except Exception as e: print
KLookup ==
    /\ kpc = "lookup"
    /\ \E o \in TempoOutcomes, d \in QueryDurations :
        /\ trace_lookup' = o
        /\ know' = know + d
        /\ trace_found' = (o.kind = "found")
        /\ kprinted' = IF o.kind = "raise" THEN o.err ELSE kprinted
    /\ kpc' = "print"
    /\ klookupAt' = know
    /\ UNCHANGED << kqueries, kqueryAt, kresult, metric_found >>

\* the closing print; the test has passed
KEnd ==
    /\ kpc = "print"
    /\ kpc' = "passed"
    /\ UNCHANGED << know, kqueries, kqueryAt, kresult, klookupAt, metric_found,
                    trace_lookup, trace_found, kprinted >>

(***************************************************************************)
(* Specifications                                                          *)
(***************************************************************************)

WNext ==
    \/ WProbe
    \/ WReturn
    \/ WBreak
    \/ WCheckLast
    \/ WSleep
    \/ WFail
    \/ WProvision

PNext ==
    \/ PStart
    \/ PWhile
    \/ PQuery
    \/ PBreak
    \/ PSleep
    \/ PAssert

ENext ==
    \/ send_test_metric
    \/ send_test_trace
    \/ send_correlated_telemetry
    \/ index
    \/ generate
    \/ generate_error
    \/ slow_request
    \/ ExportSpans
    \/ ExportLogs
    \/ ExportMetrics
    \/ Scrape

SNext ==
    \/ RunTest

CNext ==
    \/ RemoveSection
    \/ AddSection
    \/ test_required_sections_present

TNext ==
    \/ test_all_configured_targets_are_up

QNext ==
    \/ test_queue_not_full

RNext ==
    \/ test_pipeline_references_valid

MNext ==
    \/ parse_prometheus_metrics

ONext ==
    \/ test_http_listen_port_defined
    \/ test_http_listen_port_valid
    \/ test_grpc_listen_port_valid

KNext ==
    \/ KSend
    \/ KQuery
    \/ KAssert
    \/ KLookup
    \/ KEnd

vars == << wvars, pvars, evars, svars, cvars, tvars, qvars, rvars, mvars, ovars,
           kvars >>

\* no unit test of a further validator, no parse and no correlation test
\* is under way
FurtherIdle == RIdle /\ MIdle /\ OIdle /\ KIdle

further == << rvars, mvars, ovars, kvars >>

\* no integration session and no unit or single-test run is under way
OthersIdle == SIdle /\ CIdle /\ TIdle /\ QIdle /\ FurtherIdle

\* a readiness fixture runs; no test body has started
Init == WInit /\ PIdle /\ EIdle /\ OthersIdle

Next == WNext /\ UNCHANGED << pvars, evars, svars, cvars, tvars, qvars, further >>

Spec == Init /\ [][Next]_vars

\* an e2e test body runs after its wait_for_stack fixture has returned
PollInit == StackReady /\ PInit /\ EIdle /\ OthersIdle

PollNext == PNext /\ UNCHANGED << wvars, evars, svars, cvars, tvars, qvars, further >>

PollSpec == PollInit /\ [][PollNext]_vars

\* the test process is scheduled until the test ends
PollFairSpec == PollSpec /\ WF_vars(PollNext)

\* no fixture and no test body is running
WIdle ==
    /\ waiter = "none"
    /\ comp = 1
    /\ attempt = 0
    /\ wpc = "idle"
    /\ response = NoResponse
    /\ probes = 0
    /\ sleeps = 0
    /\ elapsed = 0
    /\ sleptSince = 0
    /\ gapAtProbe = 0
    /\ firstOk = 0
    /\ settled = 0
    /\ failMsg = ""

\* an emitter makes its calls while the exporters and the scraper run
EmitInit == EInit /\ WIdle /\ PIdle /\ OthersIdle

EmitNext == ENext /\ UNCHANGED << wvars, pvars, svars, cvars, tvars, qvars, further >>

EmitSpec == EmitInit /\ [][EmitNext]_vars

\* pytest runs the tests of one integration test file
SessionInit == SInit /\ WIdle /\ PIdle /\ EIdle /\ CIdle /\ TIdle /\ QIdle /\ FurtherIdle

SessionNext == SNext /\ UNCHANGED << wvars, pvars, evars, cvars, tvars, qvars, further >>

SessionSpec == SessionInit /\ [][SessionNext]_vars

\* a config file is edited and its required-sections test is run
ConfigInit == CInit /\ WIdle /\ PIdle /\ EIdle /\ SIdle /\ TIdle /\ QIdle /\ FurtherIdle

ConfigNext == CNext /\ UNCHANGED << wvars, pvars, evars, svars, tvars, qvars, further >>

ConfigSpec == ConfigInit /\ [][ConfigNext]_vars

\* test_all_configured_targets_are_up runs on an answer of Prometheus
TargetsInit == TInit /\ WIdle /\ PIdle /\ EIdle /\ SIdle /\ CIdle /\ QIdle /\ FurtherIdle

TargetsNext == TNext /\ UNCHANGED << wvars, pvars, evars, svars, cvars, qvars, further >>

TargetsSpec == TargetsInit /\ [][TargetsNext]_vars

\* test_queue_not_full runs on a metrics text of the collector
QueueInit == QInit /\ WIdle /\ PIdle /\ EIdle /\ SIdle /\ CIdle /\ TIdle /\ FurtherIdle

QueueNext == QNext /\ UNCHANGED << wvars, pvars, evars, svars, cvars, tvars, further >>

QueueSpec == QueueInit /\ [][QueueNext]_vars

\* everything but the four further areas is idle
EarlierIdle == WIdle /\ PIdle /\ EIdle /\ SIdle /\ CIdle /\ TIdle /\ QIdle

earlier == << wvars, pvars, evars, svars, cvars, tvars, qvars >>

\* test_pipeline_references_valid runs on a collector config
PipelineInit == RInit /\ EarlierIdle /\ MIdle /\ OIdle /\ KIdle

PipelineNext == RNext /\ UNCHANGED << earlier, mvars, ovars, kvars >>

PipelineSpec == PipelineInit /\ [][PipelineNext]_vars

\* parse_prometheus_metrics is called on a text
ParseInit == MInit /\ EarlierIdle /\ RIdle /\ OIdle /\ KIdle

ParseNext == MNext /\ UNCHANGED << earlier, rvars, ovars, kvars >>

ParseSpec == ParseInit /\ [][ParseNext]_vars

\* the server port tests run on a config file
PortInit == OInit /\ EarlierIdle /\ RIdle /\ MIdle /\ KIdle

PortNext == ONext /\ UNCHANGED << earlier, rvars, mvars, kvars >>

PortSpec == PortInit /\ [][PortNext]_vars

\* test_trace_and_metric_correlation runs after wait_for_stack has returned
CorrelationInit ==
    KInit /\ StackReady /\ PIdle /\ EIdle /\ SIdle /\ CIdle /\ TIdle /\ QIdle
          /\ RIdle /\ MIdle /\ OIdle

CorrelationNext == KNext /\ UNCHANGED << earlier, rvars, mvars, ovars >>

CorrelationSpec == CorrelationInit /\ [][CorrelationNext]_vars

(***************************************************************************)
(* Properties of the readiness waiters (checked under Spec)                *)
(***************************************************************************)

ConftestWaiters ==
    { "integration/conftest.wait_for_homeassistant",
      "integration/conftest.wait_for_prometheus",
      "integration/conftest.wait_for_otel_collector" }

\* C1: a waiter whose target never yields the expected response fails only
\* after exactly max_retries probes (30 in integration/conftest.py, 60
\* elsewhere), and any two consecutive probes of a target are separated by
\* a sleep of at least retry_interval (2 s).
C1_FailsAfterMaxRetries ==
    /\ wpc \in {"exhausted", "failed"} =>
          /\ firstOk = 0
          /\ probes = (IF waiter \in ConftestWaiters THEN 30 ELSE 60)
    /\ probes >= 2 => gapAtProbe >= 2

\* a 60-attempt waiter has failed
C1_Witness ==
    wpc = "failed" /\ probes = 60 /\ gapAtProbe >= 2 /\ firstOk = 0

\* C2: if the target first yields the expected response on probe k, the
\* waiter issues exactly k probes to it and goes on to success, never to
\* another sleep, probe or failure; also for k = max_retries.
C2_ExactlyKProbes ==
    /\ firstOk # 0 =>
          /\ probes = firstOk
          /\ attempt = firstOk - 1
          /\ wpc \in {"succeeded", "provisioning", "returned"}
          /\ failMsg = ""
    /\ wpc \in {"succeeded", "provisioning", "returned"} => firstOk = probes

\* success on the very last allowed attempt
C2_Witness ==
    wpc = "returned" /\ firstOk = 60 /\ probes = 60 /\ max_retries(waiter) = 60

\* C4 as stated: no delay at all between the successful probe and the return.
C4_ReturnsWithoutDelay ==
    wpc = "returned" => settled = 0

\* C4 (amended): after the first successful probe no further probe and no
\* retry_interval sleep is made; the waiter returns without delay, except
\* that wait_for_grafana of test_grafana_integration.py and
\* wait_for_prometheus of test_prometheus_scraping.py sleep a fixed 10 s
\* before returning, and wait_for_stack, which goes to its next component
\* without delay, sleeps 10 s after its last component.
C4_ReturnsAfterSettleOnly ==
    /\ wpc = "returned" =>
          /\ settled = (IF waiter \in { "test_grafana_integration.wait_for_grafana",
                                        "test_prometheus_scraping.wait_for_prometheus",
                                        "e2e/conftest.wait_for_stack" }
                        THEN 10 ELSE 0)
          /\ sleeps = probes - 1
          /\ firstOk = probes
    /\ wpc # "returned" => settled = 0
    /\ wpc \in {"succeeded", "provisioning"} => sleeps = probes - 1 /\ sleptSince = 0

\* wait_for_grafana of test_grafana_integration.py returned 10 s after its success
C4_Witness ==
    /\ wpc = "returned"
    /\ waiter = "test_grafana_integration.wait_for_grafana"
    /\ settled = 10
    /\ probes >= 2

\* C5: a waiter that exhausts its attempts ends in a terminal failed state
\* whose message names the target; nothing happens afterwards: in
\* wait_for_stack no later component is probed and the fixture never
\* completes.
C5_ExhaustionIsFatal ==
    /\ [](failMsg # "" <=> wpc = "failed")
    /\ [](wpc = "failed" => failMsg = components(waiter)[comp])
    /\ [][wpc = "exhausted" => wpc' = "failed"]_vars
    /\ [][wpc = "failed" => wpc' = "failed" /\ comp' = comp /\ probes' = probes]_vars

\* wait_for_stack failed on its second component
C5_Witness ==
    /\ wpc = "failed"
    /\ waiter = wait_for_stack
    /\ comp = 2
    /\ failMsg = "Tempo"

\* C6: a probe that raises a RequestException counts as one failed attempt:
\* the exception does not leave the waiter, and the waiter is where a
\* response with a non-matching status would have put it.
C6_ExceptionIsAFailedAttempt ==
    /\ wpc # "raised"
    /\ response.kind = "RequestException" =>
          /\ wpc = (IF waiter = wait_for_stack THEN "check_last" ELSE "sleep")
          /\ probes = attempt + 1
          /\ firstOk = 0
    /\ response.kind = "response" /\ response.status_code = 503 =>
          /\ wpc = (IF waiter = wait_for_stack THEN "check_last" ELSE "sleep")
          /\ probes = attempt + 1

\* the third probe of a target raised
C6_Witness ==
    response.kind = "RequestException" /\ probes = 3 /\ wpc \in {"sleep", "check_last"}

\* C9 as stated: success if and only if the status is in the expected set.
C9_StatusAloneDecides ==
    response.kind = "response" =>
        ( wpc = "succeeded" <=>
          response.status_code \in
              (IF waiter = "integration/conftest.wait_for_homeassistant"
               THEN {200, 401} ELSE {200}) )

\* C9 (amended): a probe is a success if and only if the status is in the
\* expected set ({200}; {200, 401} for Home Assistant) and, for
\* wait_for_otel_collector of integration/conftest.py only, the body is
\* longer than 100 characters; nothing else affects the classification.
C9_StatusAndOtelBodyDecide ==
    response.kind = "response" =>
        ( wpc = "succeeded" <=>
          /\ response.status_code \in
                (IF waiter = "integration/conftest.wait_for_homeassistant"
                 THEN {200, 401} ELSE {200})
          /\ waiter = "integration/conftest.wait_for_otel_collector"
                => response.text_len > 100 )

\* the conftest collector waiter got a 200 with a body of 100 characters
C9_Witness ==
    /\ waiter = "integration/conftest.wait_for_otel_collector"
    /\ response.kind = "response"
    /\ response.status_code = 200
    /\ response.text_len = 100
    /\ wpc = "sleep"

\* C10 as stated: first probe to failure takes at most max_retries x retry_interval.
C10_WindowIsRetriesTimesInterval ==
    wpc = "failed" =>
        elapsed <= (IF waiter \in ConftestWaiters THEN 60 ELSE 120)

\* C10 (amended): with every sleep lasting retry_interval and every probe
\* blocking no longer than its 5 s timeout, the time from the first probe
\* to the failure is at most max_retries x (retry_interval + 5 s): 210 s
\* with 30 attempts, 420 s with 60 (418 s for a component of
\* wait_for_stack, which does not sleep after the last probe); it is never
\* less than the time slept.
C10_WindowIncludesProbeTime ==
    wpc = "failed" =>
        /\ elapsed <= (IF waiter \in ConftestWaiters THEN 210
                       ELSE IF waiter = wait_for_stack THEN 418 ELSE 420)
        /\ elapsed >= 2 * sleeps
        /\ sleeps = (IF waiter \in ConftestWaiters THEN 30
                     ELSE IF waiter = wait_for_stack THEN 59 ELSE 60)

\* a 30-attempt waiter failed after 210 s, every probe having timed out
C10_Witness ==
    wpc = "failed" /\ waiter \in ConftestWaiters /\ elapsed = 210

(***************************************************************************)
(* Properties of the poll loops (checked under PollSpec / PollFairSpec)    *)
(***************************************************************************)

\* C3: a poll loop stops at the first query whose result satisfies the
\* predicate: that result decides the verdict and no query follows it.
C3_StopsAtFirstSatisfied ==
    /\ satisfiedAt # 0 =>
          /\ queries = satisfiedAt
          /\ ppc \in {"found", "assert", "passed"}
    /\ ppc \in {"assert", "passed"} => (found <=> satisfiedAt # 0)
    /\ ppc = "passed" => satisfiedAt = queries
    /\ ppc = "failed" => satisfiedAt = 0

\* a test passed on its third query
C3_Witness ==
    ppc = "passed" /\ satisfiedAt = 3 /\ queries = 3

CeilDiv(a, b) == (a + b - 1) \div b

PollEnded == ppc \in {"passed", "failed"}

\* C8: every poll loop terminates: a query is started only while the
\* elapsed time is below the deadline D, at most ceil(D/s) queries are
\* issued for a per-iteration sleep s, and if none satisfies the predicate
\* the test ends in a hard failure.
C8_PollTerminates ==
    /\ [](ppc = "query" => queryStart = now /\ now < max_wait(test))
    /\ [](queries >= 1 => queryStart < max_wait(test))
    /\ [](queries <= CeilDiv(max_wait(test), poll_sleep(test)))
    /\ [](PollEnded /\ satisfiedAt = 0 => ppc = "failed" /\ report # NoMessage)
    /\ <>PollEnded

\* the latency test failed after its 60 queries
C8_Witness ==
    /\ ppc = "failed"
    /\ test = "test_metric_e2e_latency_under_5s"
    /\ queries = 60

(***************************************************************************)
(* Properties of the emitters (checked under EmitSpec)                     *)
(***************************************************************************)

\* the identifiers found on the spans, log records and metric labels of a call
OnSpans(c) == { sp.id : sp \in c.spans } \ {NoId}
OnLogs(c) == { l.id : l \in c.logs } \ {NoId}
OnMetrics(c) == { pt.labels.test_id : pt \in c.points } \ {NoId}

TopSpans(c) == { sp \in c.spans : sp.top }

Converged == prom = collector /\ collector = sums

CounterCalls ==
    { c \in sent : c.op = "send_test_metric" /\ c.args[1] = "counter" }

\* C13: after a send_test_metric("counter", v, ...) call that returned X,
\* once export and scrape have converged, the series labelled test_id = X
\* is exactly one and its value is v (42.0 for v = 42.0); no other call
\* contributes to a series labelled with X.
C13_OneSeriesPerTestId ==
    \A c \in CounterCalls :
        /\ Converged =>
              LET S == { x \in prom : x.labels.test_id = c.returned }
              IN  /\ Cardinality(S) = 1
                  /\ \A x \in S : x.instrument = "e2e_test_counter" /\ x.sum = c.args[2]
        /\ \A x \in sums : x.labels.test_id = c.returned => x.count = 1

\* the series of a counter=42 call is in Prometheus, two other calls made
C13_Witness ==
    /\ Converged
    /\ calls = 3
    /\ \E c \in CounterCalls :
        /\ c.call = 1
        /\ c.args[2] = 42
        /\ \E x \in prom : x.labels.test_id = c.returned /\ x.sum = 42

\* C14: an emitter call returns without waiting for export: what it made is
\* queued for the exporter threads and no backend changes during the call,
\* so a query made right after the call may find nothing; the data reaches
\* a backend only by a later export step.
C14_ExportIsNotAwaited ==
    /\ [][calls' = calls + 1 =>
            /\ tempo' = tempo /\ loki' = loki
            /\ collector' = collector /\ prom' = prom
            /\ ecall'.spans \subseteq spanQueue'
            /\ ecall'.logs \subseteq logQueue']_vars
    /\ [](tempo \cap spanQueue = {})
    /\ [][tempo' # tempo \/ collector' # collector \/ prom' # prom \/ loki' # loki
            => calls' = calls]_vars

\* send_test_trace has returned and Tempo has none of its spans
C14_Witness ==
    /\ ecall.op = "send_test_trace"
    /\ ecall.spans # {}
    /\ ecall.spans \subseteq spanQueue
    /\ tempo = {}

(***************************************************************************)
(* Properties of the e2e tests' verdicts (checked under PollSpec)          *)
(***************************************************************************)

C18_PassesOnlyIfVisibleWithin15s ==
    (test = "test_metric_reaches_prometheus" /\ ppc = "passed") =>
        ~(sawEmpty /\ propagation_sleep(test) >= 30)

(***************************************************************************)
(* Properties of a test session (checked under SessionSpec)                *)
(***************************************************************************)

\* C16 as stated: a test sends a request to a service only after a
\* readiness waiter for that same service has returned in the session.
C16_RequestsOnlyAfterWaiter ==
    (request # NoRequest /\ request.via = "http") => request.awaited

(***************************************************************************)
(* Properties of the config validators (checked under ConfigSpec)          *)
(***************************************************************************)

C17_Required ==
    CASE validator = "test_otel_config_validation" ->
            { "receivers", "processors", "exporters", "service" }
      [] validator = "test_tempo_config_validation" ->
            { "server", "distributor", "ingester", "storage" }
      [] validator = "test_loki_config_validation" -> { "server", "schema_config" }
      [] validator = "test_prometheus_config_validation" -> { "global" }
      [] OTHER -> {}

\* C17: for each validator and each required top-level key K, the test run
\* on a document from which K was removed fails, and the test run on the
\* minimal valid document restored by adding K back passes; in general the
\* test passes exactly on the documents that have every required key.
C17_RemoveFailsAddBackPasses ==
    verdict # "none" =>
        /\ (lastEdit.op = "remove" /\ lastEdit.key \in C17_Required) => verdict # "passed"
        /\ config = origin => verdict = "passed"
        /\ verdict = "passed" <=> (~configIsNone /\ C17_Required \subseteq config)

\* 'service' was removed from the minimal OTel document and added back,
\* and the test has passed on the restored document
C17_Witness ==
    /\ validator = "test_otel_config_validation"
    /\ lastEdit = [ op |-> "add", key |-> "service" ]
    /\ config = { "receivers", "processors", "exporters", "service" }
    /\ config = origin
    /\ verdict = "passed"

(***************************************************************************)
(* Properties of single integration tests (TargetsSpec, QueueSpec)         *)
(***************************************************************************)

\* C19 as stated: test_all_configured_targets_are_up passes only if each of
\* prometheus, otel-collector and alertmanager has an `up` series with
\* value 1; a down homeassistant never fails it.
C19_PassesOnlyIfCoreServicesUp ==
    targetsVerdict = "passed" =>
        \A job \in { "prometheus", "otel-collector", "alertmanager" } :
            \E i \in 1 .. Len(results) : results[i].job = job /\ results[i].up = 1

\* C20 as stated: test_queue_not_full fails whenever some exporter's queue
\* has capacity > 0 and size / capacity >= 0.8.
C20_FailsWhenSomeQueueIsFull ==
    queueVerdict \in {"passed", "failed"} =>
        ((\E i, j \in 1 .. Len(metrics) :
            /\ ~metrics[i].comment /\ metrics[i].name = "otelcol_exporter_queue_size"
            /\ ~metrics[j].comment /\ metrics[j].name = "otelcol_exporter_queue_capacity"
            /\ metrics[i].exporter = metrics[j].exporter
            /\ metrics[j].value > 0
            /\ 10 * metrics[i].value >= 8 * metrics[j].value)
         => queueVerdict = "failed")

(***************************************************************************)
(* Further properties of the readiness waiters (checked under Spec)        *)
(***************************************************************************)

\* C21: wait_for_stack establishes readiness in the order Prometheus,
\* Tempo, Loki, Grafana: it starts with the first, moves to the next
\* component only from a probe that answered 200, counts its 60 attempts
\* afresh for each component, and completes only after the fourth has
\* answered 200 and a further 10 s have passed.
C21_StackInOrder ==
    /\ [](waiter = wait_for_stack =>
            /\ components(waiter) = << "Prometheus", "Tempo", "Loki", "Grafana" >>
            /\ comp \in 1 .. 4
            /\ probes <= 60 /\ attempt <= probes
            /\ failMsg # "" => failMsg = << "Prometheus", "Tempo", "Loki", "Grafana" >>[comp]
            /\ wpc = "returned" => comp = 4 /\ firstOk = probes /\ firstOk > 0 /\ settled = 10)
    /\ [][(waiter = wait_for_stack /\ comp' # comp) =>
            /\ comp' = comp + 1
            /\ response.kind = "response" /\ response.status_code = 200
            /\ probes' = 0 /\ attempt' = 0 /\ wpc' = "probe"]_vars
    /\ [][(waiter = wait_for_stack /\ wpc' = "provisioning" /\ wpc # "provisioning") =>
            /\ comp = 4
            /\ response.kind = "response" /\ response.status_code = 200]_vars

\* wait_for_stack has returned, Grafana having answered 200 on a later
\* attempt than its first
C21_Witness ==
    /\ waiter = wait_for_stack
    /\ wpc = "returned"
    /\ comp = 4
    /\ probes > 1
    /\ settled = 10

\* C28 as stated: on exhaustion an integration waiter has slept max_retries
\* times and wait_for_stack max_retries - 1 times, and in neither case was
\* a probe issued after the final sleep.
C28_NoProbeAfterFinalSleep ==
    wpc = "failed" =>
        /\ sleeps = (IF waiter = wait_for_stack THEN 59
                     ELSE IF waiter \in ConftestWaiters THEN 30 ELSE 60)
        /\ sleptSince > 0

\* C28 (amended): on exhaustion an integration waiter has slept after every
\* failed probe including the last (max_retries sleeps for max_retries
\* probes) and reports failure after that final sleep without a further
\* probe; wait_for_stack has slept max_retries - 1 = 59 times, its final
\* sleep is followed by the 60th probe, and it reports failure directly
\* after that probe, without sleeping.
C28_SleepsOnExhaustion ==
    wpc = "failed" =>
        IF waiter = wait_for_stack
        THEN sleeps = 59 /\ probes = 60 /\ sleptSince = 0 /\ gapAtProbe = 2
        ELSE /\ sleeps = (IF waiter \in ConftestWaiters THEN 30 ELSE 60)
             /\ probes = sleeps
             /\ sleptSince = 2

\* wait_for_stack has failed on Tempo after 60 probes and 59 sleeps
C28_Witness ==
    /\ waiter = wait_for_stack
    /\ wpc = "failed"
    /\ failMsg = "Tempo"
    /\ probes = 60
    /\ sleeps = 59

(***************************************************************************)
(* Further properties of the e2e tests (checked under PollSpec)            *)
(***************************************************************************)

\* C22: in test_metric_reaches_prometheus every query is issued before the
\* deadline (15 s = 30 ticks); the test passes if and only if one of them
\* returned a non-empty result whose content passed the value and label
\* asserts; a non-empty result that fails an assert raises inside the try
\* block, is caught and printed like a query error, the loop sleeps and
\* polls on, and at the deadline the test fails with its 'not found'
\* message.
C22_ContentAssertsAreSwallowed ==
    test = "test_metric_reaches_prometheus" =>
        /\ queries > 0 => queryStart < 30
        /\ ppc = "passed" => /\ satisfiedAt = queries
                             /\ result.kind = "result" /\ result.nonempty /\ result.valid
        /\ ppc = "failed" =>
              /\ satisfiedAt = 0
              /\ report = [ text |-> "not found in Prometheus after 30 seconds",
                            error |-> NoError ]
        /\ (result.kind = "result" /\ result.nonempty /\ ~result.valid) =>
              /\ ppc = "sleep" /\ ~found /\ satisfiedAt = 0
              /\ lastError = MaxErr + 1 /\ retryLog = MaxErr + 1

\* the test failed at its deadline, the last thing caught being the
\* AssertionError of a content assert
C22_Witness ==
    /\ test = "test_metric_reaches_prometheus"
    /\ ppc = "failed"
    /\ lastError = AssertionError
    /\ queries >= 2

(***************************************************************************)
(* Further properties of the emitters (checked under EmitSpec)             *)
(***************************************************************************)

\* the record of the call made last
LastSent == CHOOSE c \in sent : c.call = calls

CallCount(op) == Cardinality({ c \in sent : c.op = op })

\* the series of an instrument, and the recordings made under one label set
SeriesOf(instrument) == { x \in sums : x.instrument = instrument }
Recorded(instrument, tag) ==
    LET S == { x \in SeriesOf(instrument) : x.labels.tag = tag }
    IN  IF S = {} THEN 0 ELSE (CHOOSE x \in S : TRUE).count

\* C29: after any sequence of requests to the demo app, requests_total has
\* been incremented by exactly 1 per request to /generate, /error and /slow
\* (status 'error' for /error only, 'success' otherwise) and never for /,
\* and processing_duration_seconds holds exactly one recording per
\* /generate and /slow request and none for /error or /.
C29_OneIncrementPerRequest ==
    emitter = "app" =>
        /\ Recorded("requests_total", "endpoint=/generate,status=success") = CallCount("generate")
        /\ Recorded("requests_total", "endpoint=/error,status=error") = CallCount("generate_error")
        /\ Recorded("requests_total", "endpoint=/slow,status=success") = CallCount("slow_request")
        /\ \A x \in SeriesOf("requests_total") :
              /\ x.sum = x.count
              /\ x.labels.tag \in { "endpoint=/generate,status=success",
                                    "endpoint=/error,status=error",
                                    "endpoint=/slow,status=success" }
        /\ Recorded("processing_duration_seconds", "endpoint=/generate") = CallCount("generate")
        /\ Recorded("processing_duration_seconds", "endpoint=/slow") = CallCount("slow_request")
        /\ \A x \in SeriesOf("processing_duration_seconds") :
              x.labels.tag \in { "endpoint=/generate", "endpoint=/slow" }
        /\ Cardinality(sums) <= 5

\* the app has served /, /error and /slow once each
C29_Witness ==
    /\ emitter = "app"
    /\ CallCount("index") = 1
    /\ CallCount("generate_error") = 1
    /\ CallCount("slow_request") = 1
    /\ Recorded("requests_total", "endpoint=/error,status=error") = 1
    /\ Recorded("processing_duration_seconds", "endpoint=/slow") = 1

\* the send_test_metric calls made with a name the method does not know
UnknownNameCalls ==
    { c \in sent : c.op = "send_test_metric" /\ c.args[1] \notin {"counter", "histogram"} }

ListedAreKeys(p, kind) ==
    \A j \in 1 .. Len(p[kind].items) : p[kind].items[j] \in otelConfig[kind].keys

\* C24 as stated: the reference check passes if and only if every receiver,
\* processor and exporter name listed by a pipeline is a key of the
\* top-level section of its kind, an omitted list listing nothing.
\* Violated by a config whose `processors:` is empty (null) and whose
\* pipelines list no processor, and by a pipeline whose list is null.
C24_PassesIffReferencesAreKeys ==
    refVerdict \notin {"none", "idle"} =>
        ( refVerdict = "passed" <=>
            \A i \in 1 .. Len(otelConfig.pipelines) :
                \A kind \in {"receivers", "processors", "exporters"} :
                    ListedAreKeys(otelConfig.pipelines[i], kind) )

(***************************************************************************)
(* C25: parse_prometheus_metrics                                           *)
(***************************************************************************)

\* positions of text whose line is neither blank nor a comment
MetricLinePositions ==
    { i \in 1 .. Len(text) : Strip(text[i]) # << >> /\ Strip(text[i])[1] # "#" }

\* the key the claim names: the text before the first '{', or before the
\* first space when the line has no '{'; the whole line when it has neither
NameOf(line) ==
    IF \E i \in 1 .. Len(line) : line[i] = "{"
    THEN SubSeq(line, 1, (CHOOSE i \in 1 .. Len(line) :
                            line[i] = "{" /\ \A j \in 1 .. (i - 1) : line[j] # "{") - 1)
    ELSE IF \E i \in 1 .. Len(line) : line[i] = " "
    THEN SubSeq(line, 1, (CHOOSE i \in 1 .. Len(line) :
                            line[i] = " " /\ \A j \in 1 .. (i - 1) : line[j] # " ") - 1)
    ELSE line

\* number of stored lines
RECURSIVE SumLen(_, _)
SumLen(d, keys) ==
    IF keys = {} THEN 0
    ELSE LET k == CHOOSE x \in keys : TRUE IN Len(d[k]) + SumLen(d, keys \ {k})

\* the stripped lines at the positions ps of text, in input order
RECURSIVE LinesAt(_, _)
LinesAt(ps, i) ==
    IF i > Len(text) THEN << >>
    ELSE IF i \in ps THEN << Strip(text[i]) >> \o LinesAt(ps, i + 1)
    ELSE LinesAt(ps, i + 1)

\* C25 as stated: the sum of the list lengths equals the number of input
\* lines that are neither blank nor a '#' comment.  Violated by a text
\* holding a line with neither '{' nor a space (a name alone, a sample whose
\* value follows a tab): the line is dropped.
C25_EveryMetricLineIsFiled ==
    parseDone => SumLen(parsed, DOMAIN parsed) = Cardinality(MetricLinePositions)

\* C25, amended: the mapping holds, stripped of surrounding blanks, exactly
\* the lines that are not blank, not a comment and contain a '{' or a
\* space, each once, under its metric name, in input order; blank lines,
\* comments and lines with neither '{' nor a space never appear.
C25_FiledLinesByName ==
    parseDone =>
        LET kept == { i \in MetricLinePositions :
                        \E j \in 1 .. Len(Strip(text[i])) : Strip(text[i])[j] \in {"{", " "} }
            names == { NameOf(Strip(text[i])) : i \in kept }
        IN  /\ DOMAIN parsed = names
            /\ \A n \in names :
                  parsed[n] = LinesAt({ i \in kept : NameOf(Strip(text[i])) = n }, 1)
            /\ SumLen(parsed, DOMAIN parsed) = Cardinality(kept)

\* a text with a comment, a blank line, two samples of one name (one with
\* labels) and a dropped line has been parsed
C25_Witness ==
    /\ parseDone
    /\ text = << << "a", " ", "1" >>, << "a", "{", "}", " ", "1" >>, << "a", "\t", "1" >> >>
    /\ parsed = [ n \in { << "a" >> } |->
                    << << "a", " ", "1" >>, << "a", "{", "}", " ", "1" >> >> ]

(***************************************************************************)
(* C26: the server port tests                                              *)
(***************************************************************************)

\* the value is an integer of the range of ports
IntegerPort(v) == v.type = "int" /\ v.n \in 1 .. 65535

\* C26 as stated: the port tests accept http_listen_port, and
\* grpc_listen_port when present, if and only if the value is an integer in
\* 1..65535; a missing grpc_listen_port is accepted, a missing
\* http_listen_port rejected.  Violated by `http_listen_port: true`, which
\* the tests accept.
C26_AcceptedIffIntegerInRange ==
    /\ httpDefined # "none" =>
          (httpDefined = "passed" <=> server.http_listen_port.type # "absent")
    /\ httpValid # "none" =>
          (httpValid = "passed" <=> IntegerPort(server.http_listen_port))
    /\ grpcValid # "none" =>
          (grpcValid = "passed" <=>
              \/ server.grpc_listen_port.type = "absent"
              \/ IntegerPort(server.grpc_listen_port))

(***************************************************************************)
(* C27: test_trace_and_metric_correlation                                  *)
(***************************************************************************)

====
